---- MODULE Spec2Model ----
(***************************************************************************)
(* Todo-AppV2: the command-dispatch actor (actor/actor.go) in front of the *)
(* package-level item store (storage/storage.go) and its JSON file.        *)
(*                                                                         *)
(* Callers are goroutines invoking the Facade methods of one Actor.  The   *)
(* Serializer is the goroutine started by NewActor running Actor.run.      *)
(* Both channels are unbuffered, so a send and its receive are one step.   *)
(***************************************************************************)
EXTENDS Integers, Sequences, FiniteSets, TLC

(* ------------------------------ bounds --------------------------------- *)
NumCallers == 2
MaxCalls == 3
MaxEnvSteps == 1
MaxRuns == 2

Callers == 1..NumCallers

(* Inputs the callers draw from. *)
(* (description, status) for Create: valid with the status omitted, valid  *)
(* with a status, rejected (status outside the enum).                      *)
CreateInputs == {<<"milk", "">>, <<"milk", "completed">>, <<"milk", "has_started">>}
(* (description, status) for Update: valid, rejected (empty description).  *)
UpdateInputs == {<<"tea", "in_progress">>, <<"", "in_progress">>}
IDArgs == {1, 2}
(* Arguments the store rejects in the ways the Create and Update inputs    *)
(* above do not: a Create with no description, an Update with a status     *)
(* outside the enum.                                                       *)
RejectedCreateInputs == {<<"", "not_started">>}
RejectedUpdateInputs == {<<"tea", "has_started">>}

(* --------------------------- actor/actor.go ---------------------------- *)
CreateCmd == "CreateCmd"
UpdateCmd == "UpdateCmd"
DeleteCmd == "DeleteCmd"
ListAllCmd == "ListAllCmd"
ListCmd == "ListCmd"

(* Command{Type, ID, Description, Status, ResultChan}; a channel made by   *)
(* make(chan Response) is identified by the number of the call making it.  *)
Command(t, id, d, s, ch) ==
    [Type |-> t, ID |-> id, Description |-> d, Status |-> s, ResultChan |-> ch]

NoCommand == Command("", 0, "", "", 0)

(* -------------------------- storage/storage.go ------------------------- *)
(* Item{ID, Description, Status, Created}; Created 0 is the zero time.     *)
Item(id, d, s, t) == [ID |-> id, Description |-> d, Status |-> s, Created |-> t]

ZeroItem == Item(0, "", "", 0)

(* Items is map[int]Item: a nil map, or a map with its entries. *)
EmptyMap == [k \in {} |-> ZeroItem]

MakeItems(m) == [isNil |-> FALSE, m |-> m]

NilItems == [isNil |-> TRUE, m |-> EmptyMap]

EmptyItems == MakeItems(EmptyMap)

len(items) == Cardinality(DOMAIN items.m)

(* Response{Error, Item, Items}; Error "" is nil, an unset Items is nil.   *)
Response(e, it, its) == [Error |-> e, Item |-> it, Items |-> its]

NoResponse == Response("", ZeroItem, NilItems)

DataFile == "todos.json"

(* The bytes of the backing file, by what encoding/json makes of them.     *)
DocEmpty == [kind |-> "empty", m |-> EmptyMap]
DocNull == [kind |-> "null", m |-> EmptyMap]
DocInvalid == [kind |-> "invalid", m |-> EmptyMap]
DocObject(m) == [kind |-> "object", m |-> m]

VARIABLES
    pc,             \* caller -> "idle" | "waiting"
    cmd,            \* caller -> the Command of its Facade call (after the return:
                    \* the method called and the reply channel it made)
    result,         \* caller -> what its last Facade call returned
    calls,          \* number of Facade calls made (and of reply channels made)
    spc,            \* position of Actor.run
    cur,            \* the loop variable cmd of Actor.run
    resp,           \* the Response the running case is about to send
    data,           \* Save: the bytes json.Marshal produced
    saveErr,        \* Save: the error it returned to commitFile ("" for nil)
    itemsList,      \* storage.itemsList
    aliased,        \* the callers whose returned Items is the very map itemsList is
    itemsDatafile,  \* storage.itemsDatafile
    file,           \* content of the backing file
    ioOK,           \* whether the file system lets the file be opened and written
    envSteps,       \* number of steps the environment has taken
    clock,          \* time.Now()
    \* History of the run, read by the properties only.
    initial,        \* content of the file when the session started
    validCreates,   \* number of commands received that are a Create with valid inputs
    received,       \* reply channels of the commands, in the order Actor.run received them
    executed,       \* reply channels of the commands, in the order their case ran
    sent,           \* reply channel -> number of Responses sent on it
    produced,       \* reply channel -> the Response its command's case produced
    createdIDs,     \* the IDs successful Creates returned, in order
    deleted,        \* the IDs successful Deletes removed
    gone,           \* the IDs a Delete removed and no Create has assigned since
    lastCreate,     \* the last successful CreateItem: its ID, the keys it ran on, the
                    \* IDs deleted and the IDs assigned in the session before it
    createdRet,     \* ID -> the Item Create returned, until an Update or Delete of it
    reload,         \* the reload step of the current command: its error and the state before
    \* The other users of the storage package and of the Facade.
    trip,           \* a direct user of Save and Load: its position and what Load returned
    cli,            \* the invocation of main: its flags, its position, what it printed and wrote
    actorInstance,  \* handler.actorInstance: TRUE once InitActor has set it
    http,           \* caller -> the HTTP handler it runs and the response it wrote
    other,          \* another process working on the same file
    cancelled       \* context -> whether its cancel function was called, and after
                    \* how many calls of the Facade

vars == <<pc, cmd, result, calls, spc, cur, resp, data, saveErr, itemsList, aliased,
          itemsDatafile, file, ioOK, envSteps, clock, initial, validCreates,
          received, executed, sent, produced,
          createdIDs, deleted, gone, lastCreate, createdRet, reload,
          trip, cli, actorInstance, http, other, cancelled>>

auxVars == <<trip, cli, actorInstance, http, other, cancelled>>

actorVars == <<pc, cmd, result, calls, spc, cur, resp, data, saveErr, aliased,
               itemsDatafile, ioOK, envSteps, cancelled>>

progVars == <<pc, cmd, result, calls, spc, cur, resp, data, saveErr, itemsList, aliased,
              itemsDatafile, clock>>

histVars == <<initial, validCreates, received, executed, sent, produced, createdIDs, deleted, gone,
              lastCreate, createdRet, reload>>

(* --------------------- storage: pure parts of the code ----------------- *)
(* As if the assignment to a key replaced the map by one with that key. *)
PutAlone(m, k, v) == [x \in {k} |-> v]

Put(m, k, v) == [x \in (DOMAIN m) \cup {k} |-> IF x = k THEN v ELSE m[x]]

Remove(m, k) == [x \in (DOMAIN m) \ {k} |-> m[x]]

(* newItem: the item stamped with time.Now().UTC(). *)
newItem(id, description, status, now) == Item(id, description, status, now)

(* collectKeys: the keys of the map (a nil map has none). *)
collectKeys(items) == DOMAIN items.m

(* highestKey: key := 0; for each key i, if i > key then key = i. *)
RECURSIVE highestKeyFrom(_, _)
highestKeyFrom(key, keys) ==
    IF keys = {} THEN key
    ELSE LET i == CHOOSE x \in keys : TRUE
         IN highestKeyFrom(IF i > key THEN i ELSE key, keys \ {i})

(* As if the comparison were `i < key`: no key is ever taken. *)
highestKeyWrongCompare(keys) == 0

highestKey(keys) == highestKeyFrom(0, keys)

(* json.Marshal(itemsList): a nil map encodes as null, a map as an object  *)
(* keyed by the decimal ID, each value {id, description, status, created}. *)
(* As if Created carried the tag json:"-". *)
EncodeItemNoCreated(it) ==
    [id |-> it.ID, description |-> it.Description, status |-> it.Status, created |-> 0]

EncodeItem(it) ==
    [id |-> it.ID, description |-> it.Description,
     status |-> it.Status, created |-> it.Created]

DecodeItem(j) == Item(j.id, j.description, j.status, j.created)

Marshal(items) ==
    IF items.isNil THEN DocNull
    ELSE DocObject([k \in DOMAIN items.m |-> EncodeItem(items.m[k])])

(* loadItem: io.ReadAll, then: no bytes -> Items{}; json.Unmarshal into an *)
(* Items{}: null sets the map to nil, an object fills it, anything else is *)
(* an error.                                                               *)
ErrParse == "invalid character looking for beginning of value"
ErrOpen == "open todos.json: permission denied"
ErrWrite == "write todos.json: no space left on device"

LoadResult(items, err) == [items |-> items, err |-> err]

(* As if loadItem handed the bytes of an empty file to json.Unmarshal. *)
loadItemNoEmptyCase(doc) ==
    CASE doc.kind = "null" -> LoadResult(NilItems, "")
      [] doc.kind = "object" ->
            LoadResult(MakeItems([k \in DOMAIN doc.m |-> DecodeItem(doc.m[k])]), "")
      [] OTHER -> LoadResult(EmptyItems, "unexpected end of JSON input")

loadItem(doc) ==
    CASE doc.kind = "empty" -> LoadResult(EmptyItems, "")
      [] doc.kind = "null" -> LoadResult(NilItems, "")
      [] doc.kind = "object" ->
            LoadResult(MakeItems([k \in DOMAIN doc.m |-> DecodeItem(doc.m[k])]), "")
      [] OTHER -> LoadResult(EmptyItems, ErrParse)

(* Load: openFileReadWrite, then loadItem. *)
Load(doc, canOpen) ==
    IF ~canOpen THEN LoadResult(EmptyItems, ErrOpen) ELSE loadItem(doc)

(* What a storage operation hands back to Actor.run: its return values,    *)
(* the map it leaves in itemsList, whether it reached commitFile, and      *)
(* whether it panicked.                                                    *)
Outcome(item, items, err, list, commit, panic) ==
    [item |-> item, items |-> items, err |-> err, list |-> list,
     commit |-> commit, panic |-> panic]

Failed(err, list) == Outcome(ZeroItem, NilItems, err, list, FALSE, FALSE)

ValidStatus(status) ==
    status = "not_started" \/ status = "in_progress" \/ status = "completed"

(* As if CreateItem stored an omitted status as it came. *)
CreateItemNoDefault(list, description, status, now) ==
    IF description = "" THEN Failed("description cannot be empty", list)
    ELSE IF status # "" /\ ~ValidStatus(status) THEN Failed("invalid status value", list)
    ELSE LET nextKey == highestKey(collectKeys(list)) + 1
             item == newItem(nextKey, description, status, now)
         IN IF list.isNil
            THEN Outcome(ZeroItem, NilItems, "", list, FALSE, TRUE)
            ELSE Outcome(item, NilItems, "", MakeItems(Put(list.m, nextKey, item)),
                         TRUE, FALSE)

(* CreateItem up to its call of commitFile. *)
CreateItem(list, description, status, now) ==
    IF description = "" THEN Failed("description cannot be empty", list)
    ELSE IF status # "" /\ ~ValidStatus(status) THEN Failed("invalid status value", list)
    ELSE LET st == IF status # "" THEN status ELSE "not_started"
             nextKey == highestKey(collectKeys(list)) + 1
             item == newItem(nextKey, description, st, now)
         IN IF list.isNil
            THEN Outcome(ZeroItem, NilItems, "", list, FALSE, TRUE)
            ELSE Outcome(item, NilItems, "", MakeItems(Put(list.m, nextKey, item)),
                         TRUE, FALSE)

(* As if UpdateItem checked the description and the status only. *)
UpdateItemNoIDCheck(list, item) ==
    IF item.Description = "" THEN Failed("description cannot be empty", list)
    ELSE IF ~ValidStatus(item.Status) THEN Failed("invalid status value", list)
    ELSE Outcome(item, NilItems, "", MakeItems(Put(list.m, item.ID, item)), TRUE, FALSE)

(* As if UpdateItem stored the item without looking the ID up. *)
UpdateItemNoLookup(list, item) ==
    IF item.ID <= 0 THEN Failed("invalid item ID", list)
    ELSE IF item.Description = "" THEN Failed("description cannot be empty", list)
    ELSE IF ~ValidStatus(item.Status) THEN Failed("invalid status value", list)
    ELSE Outcome(item, NilItems, "", MakeItems(Put(list.m, item.ID, item)), TRUE, FALSE)

(* As if UpdateItem did not check the status. *)
UpdateItemNoStatusCheck(list, item) ==
    IF item.ID <= 0 THEN Failed("invalid item ID", list)
    ELSE IF item.Description = "" THEN Failed("description cannot be empty", list)
    ELSE IF item.ID \notin DOMAIN list.m THEN Failed("item not found", list)
    ELSE Outcome(item, NilItems, "", MakeItems(Put(list.m, item.ID, item)), TRUE, FALSE)

(* UpdateItem up to its call of commitFile. *)
UpdateItem(list, item) ==
    IF item.ID <= 0 THEN Failed("invalid item ID", list)
    ELSE IF item.Description = "" THEN Failed("description cannot be empty", list)
    ELSE IF ~ValidStatus(item.Status) THEN Failed("invalid status value", list)
    ELSE IF item.ID \notin DOMAIN list.m THEN Failed("item not found", list)
    ELSE Outcome(item, NilItems, "", MakeItems(Put(list.m, item.ID, item)), TRUE, FALSE)

(* As if DeleteItem never called delete(itemsList, index). *)
DeleteItemNoRemove(list, index) ==
    IF index <= 0 THEN Failed("invalid item ID", list)
    ELSE IF index \notin DOMAIN list.m THEN Failed("item not found", list)
    ELSE Outcome(ZeroItem, NilItems, "", list, TRUE, FALSE)

(* DeleteItem up to its call of commitFile. *)
DeleteItem(list, index) ==
    IF index <= 0 THEN Failed("invalid item ID", list)
    ELSE IF index \notin DOMAIN list.m THEN Failed("item not found", list)
    ELSE Outcome(ZeroItem, NilItems, "", MakeItems(Remove(list.m, index)), TRUE, FALSE)

(* As if GetItemByID returned itemsList[id] without looking at ok. *)
GetItemByIDNoOkCheck(list, id) ==
    IF id <= 0 THEN Failed("invalid item ID", list)
    ELSE IF len(list) > 0
    THEN Outcome(IF id \in DOMAIN list.m THEN list.m[id] ELSE ZeroItem,
                 NilItems, "", list, FALSE, FALSE)
    ELSE Failed("no items available", list)

GetItemByID(list, id) ==
    IF id <= 0 THEN Failed("invalid item ID", list)
    ELSE IF len(list) > 0
    THEN IF id \in DOMAIN list.m
         THEN Outcome(list.m[id], NilItems, "", list, FALSE, FALSE)
         ELSE Failed("item not found", list)
    ELSE Failed("no items available", list)

(* GetAllItems returns itemsList itself: a Go map value is a reference, so  *)
(* the caller and the store then hold the same map (see aliased).          *)
GetAllItems(list) ==
    IF len(list) > 0 THEN Outcome(ZeroItem, list, "", list, FALSE, FALSE)
    ELSE Outcome(ZeroItem, EmptyItems, "no items available", list, FALSE, FALSE)

(* ------------------------------- Init ---------------------------------- *)
(* The state after storage.Open(ctx, DataFile) followed by NewActor(ctx):   *)
(* the file is new, or was left by an earlier session with two items; the  *)
(* map is what Load made of it, the datafile is set, Actor.run at its      *)
(* range.                                                                  *)
EarlierSession ==
    MakeItems(Put(Put(EmptyMap, 1, Item(1, "bread", "not_started", 1)),
                  2, Item(2, "eggs", "completed", 2)))

InitialFiles == {DocEmpty, Marshal(EarlierSession)}

NoReload == [err |-> "", list |-> EmptyItems, file |-> DocEmpty]

NoCreate == [id |-> 0, keys |-> {}, deleted |-> {}, assigned |-> {}]

(* The direct user of the storage package has not started. *)
NoTrip ==
    [step |-> "none", loaded |-> LoadResult(NilItems, ""), first |-> DocEmpty,
     c |-> NilItems]

(* main is not running. *)
NoFlags ==
    [list |-> FALSE, itemid |-> 0, create |-> "", update |-> 0, delete |-> 0,
     status |-> "", description |-> ""]

NoCLI ==
    [pc |-> "none", flags |-> NoFlags, stderr |-> {}, writes |-> 0, runs |-> 0,
     before |-> DocEmpty, err |-> "", item |-> ZeroItem,
     checked |-> FALSE, passed |-> FALSE]

(* The caller runs no handler. *)
NoHandler == [h |-> "", stage |-> "none", code |-> 0, called |-> FALSE]

(* No other process. *)
NoOther ==
    [pc |-> "none", list |-> NilItems, id |-> 0, doc |-> DocEmpty,
     savedAt |-> "", chan |-> 0, execAt |-> 0, inSave |-> FALSE]

(* The contexts the program is handed: the one NewActor passes to         *)
(* Actor.run and the one the callers pass to the Facade methods.           *)
Contexts == {"NewActor", "Facade"}

NotCancelled == [done |-> FALSE, after |-> 0]

(* The state of the actor, its callers and the history before any call. *)
Idle ==
    /\ pc = [c \in Callers |-> "idle"]
    /\ cmd = [c \in Callers |-> NoCommand]
    /\ result = [c \in Callers |-> NoResponse]
    /\ calls = 0
    /\ spc = "recv"
    /\ cur = NoCommand
    /\ resp = NoResponse
    /\ data = DocEmpty
    /\ saveErr = ""
    /\ aliased = {}
    /\ itemsDatafile = DataFile
    /\ validCreates = 0
    /\ ioOK = TRUE
    /\ envSteps = 0
    /\ clock = 2
    /\ received = <<>>
    /\ executed = <<>>
    /\ sent = [ch \in {} |-> 0]
    /\ produced = [ch \in {} |-> NoResponse]
    /\ createdIDs = <<>>
    /\ deleted = {}
    /\ gone = {}
    /\ lastCreate = NoCreate
    /\ createdRet = EmptyMap
    /\ reload = NoReload
    /\ cancelled = [x \in Contexts |-> NotCancelled]

(* main.go did storage.Open on the file of an earlier session or on a new  *)
(* one, and the actor was started.                                         *)
Init ==
    /\ Idle
    /\ file \in InitialFiles
    /\ itemsList = Load(file, TRUE).items
    /\ initial = file
    /\ trip = NoTrip
    /\ cli = NoCLI
    /\ actorInstance = TRUE
    /\ http = [c \in Callers |-> NoHandler]
    /\ other = NoOther

(* What the data model calls a valid (description, status): a non-empty    *)
(* description, and a status of the enum or none.                          *)
ValidInput(d, s) == d # "" /\ s \in {"", "not_started", "in_progress", "completed"}

(* ------------------------- Facade: the callers -------------------------- *)
(* As if every command were handed to a goroutine of its own. *)
AtReceiveAnywhere == spc # "panicked"

(* As if Actor.run selected on ctx.Done() next to cmdChan and returned     *)
(* once its context is cancelled.                                          *)
AtReceiveUntilCancelled == spc = "recv" /\ ~cancelled["NewActor"].done

(* Actor.run is blocked in `for cmd := range a.cmdChan`. *)
AtReceive == spc = "recv"

(* The first half of a Facade method: make the reply channel, build the    *)
(* Command and send it on cmdChan.  cmdChan is unbuffered: the send is one *)
(* step with the receive of Actor.run's range loop, and a caller whose     *)
(* send finds Actor.run elsewhere stays blocked in it.                     *)
Submit(c, t, id, d, s) ==
    /\ pc[c] = "idle"
    /\ calls < MaxCalls
    /\ AtReceive
    /\ calls' = calls + 1
    /\ cmd' = [cmd EXCEPT ![c] = Command(t, id, d, s, calls + 1)]
    /\ pc' = [pc EXCEPT ![c] = "waiting"]
    /\ cur' = Command(t, id, d, s, calls + 1)
    /\ spc' = "reload"
    /\ resp' = NoResponse
    /\ result' = [result EXCEPT ![c] = NoResponse]
    /\ aliased' = aliased \ {c}
    /\ received' = Append(received, calls + 1)
    /\ validCreates' = IF t = CreateCmd /\ ValidInput(d, s)
                       THEN validCreates + 1 ELSE validCreates
    /\ produced' = [ch \in (DOMAIN produced) \ {cmd[c].ResultChan} |-> produced[ch]]
    /\ UNCHANGED <<data, saveErr, itemsList, itemsDatafile, file, ioOK, envSteps, clock>>
    /\ UNCHANGED <<initial, executed, sent, createdIDs, deleted, gone, lastCreate,
                   createdRet, reload>>

Create(c, description, status) == Submit(c, CreateCmd, 0, description, status)

Update(c, id, description, status) == Submit(c, UpdateCmd, id, description, status)

Delete(c, id) == Submit(c, DeleteCmd, id, "", "")

ListAll(c) == Submit(c, ListAllCmd, 0, "", "")

List(c, id) == Submit(c, ListCmd, id, "", "")

(* As if the Facade methods returned without looking at result.Error. *)
UnwrapNoErrorCheck(t, r) ==
    IF t = ListAllCmd THEN Response("", ZeroItem, r.Items)
    ELSE Response("", r.Item, NilItems)

(* The second half of a Facade method: what it returns for the Response r. *)
Unwrap(t, r) ==
    IF r.Error # ""
    THEN Response(r.Error, ZeroItem, IF t = ListAllCmd THEN EmptyItems ELSE NilItems)
    ELSE IF t = ListAllCmd THEN Response("", ZeroItem, r.Items)
    ELSE IF t = DeleteCmd THEN Response("", ZeroItem, NilItems)
    ELSE Response("", r.Item, NilItems)

(* ---------------------- Actor.run: the Serializer ---------------------- *)
(* reloadStorage: if a datafile is set, storage.Open it and drop the error. *)
(* Open assigns itemsList and itemsDatafile only when Load succeeded; the   *)
(* map it assigns is a new one, which no caller holds.                      *)
Reload ==
    /\ UNCHANGED auxVars
    /\ spc = "reload"
    /\ LET loaded == Load(file, ioOK)
           opened == itemsDatafile # "" /\ loaded.err = ""
       IN /\ itemsList' = IF opened THEN loaded.items ELSE itemsList
          /\ aliased' = IF opened THEN {} ELSE aliased
          /\ reload' = [err |-> IF itemsDatafile # "" THEN loaded.err ELSE "",
                        list |-> itemsList, file |-> file]
    /\ spc' = "exec"
    /\ UNCHANGED <<pc, cmd, result, calls, cur, resp, data, saveErr, itemsDatafile,
                   file, ioOK, envSteps, clock>>
    /\ UNCHANGED <<initial, validCreates, received, executed, sent, produced, createdIDs, deleted, gone,
                   lastCreate, createdRet>>

(* The storage call of each case of the switch. *)
RunCase(c, list, now) ==
    CASE c.Type = CreateCmd -> CreateItem(list, c.Description, c.Status, now)
      [] c.Type = UpdateCmd -> UpdateItem(list, Item(c.ID, c.Description, c.Status, 0))
      [] c.Type = DeleteCmd -> DeleteItem(list, c.ID)
      [] c.Type = ListAllCmd -> GetAllItems(list)
      [] c.Type = ListCmd -> GetItemByID(list, c.ID)

(* The Response each case builds from what the storage call returned. *)
ResponseOf(t, o) ==
    IF t = DeleteCmd THEN Response(o.err, ZeroItem, NilItems)
    ELSE IF o.err # "" THEN Response(o.err, ZeroItem, NilItems)
    ELSE IF t = ListAllCmd THEN Response("", ZeroItem, o.items)
    ELSE Response("", o.item, NilItems)

(* The case of the switch up to the storage call's commitFile: validation   *)
(* and the change of itemsList.  commitFile calls Save when itemsList is    *)
(* not nil; Save starts with json.Marshal(itemsList).  An assignment into a *)
(* nil map panics, and nothing in Actor.run recovers.  CreateItem,          *)
(* UpdateItem and DeleteItem change the map in place: the callers that     *)
(* hold this map see the change.                                           *)
Execute ==
    /\ UNCHANGED auxVars
    /\ spc = "exec"
    /\ LET o == RunCase(cur, itemsList, clock + 1)
           ok == ~o.panic /\ o.err = ""
           r == ResponseOf(cur.Type, o)
       IN /\ itemsList' = o.list
          /\ result' = [c \in Callers |->
                          IF c \in aliased /\ o.commit
                          THEN [result[c] EXCEPT !.Items = o.list]
                          ELSE result[c]]
          /\ clock' = IF cur.Type = CreateCmd /\ (o.commit \/ o.panic)
                      THEN clock + 1 ELSE clock
          /\ resp' = IF o.panic THEN NoResponse ELSE r
          /\ data' = IF o.commit /\ ~o.list.isNil THEN Marshal(o.list) ELSE data
          /\ spc' = IF o.panic THEN "panicked"
                    ELSE IF o.commit /\ ~o.list.isNil THEN "truncate"
                    ELSE "reply"
          /\ executed' = Append(executed, cur.ResultChan)
          /\ produced' = IF o.panic THEN produced
                         ELSE [ch \in (DOMAIN produced) \cup {cur.ResultChan} |->
                                 IF ch = cur.ResultChan THEN r ELSE produced[ch]]
          /\ createdIDs' = IF ok /\ cur.Type = CreateCmd
                           THEN Append(createdIDs, o.item.ID) ELSE createdIDs
          /\ lastCreate' = IF ok /\ cur.Type = CreateCmd
                           THEN [id |-> o.item.ID, keys |-> DOMAIN itemsList.m,
                                 deleted |-> deleted,
                                 assigned |-> {createdIDs[i] : i \in DOMAIN createdIDs}]
                           ELSE lastCreate
          /\ deleted' = IF ok /\ cur.Type = DeleteCmd
                        THEN deleted \cup {cur.ID} ELSE deleted
          /\ gone' = IF ok /\ cur.Type = DeleteCmd THEN gone \cup {cur.ID}
                     ELSE IF ok /\ cur.Type = CreateCmd THEN gone \ {o.item.ID}
                     ELSE gone
          /\ createdRet' = IF ok /\ cur.Type = CreateCmd
                           THEN Put(createdRet, o.item.ID, o.item)
                           ELSE IF ok /\ cur.Type \in {UpdateCmd, DeleteCmd}
                           THEN Remove(createdRet, cur.ID)
                           ELSE createdRet
    /\ UNCHANGED <<pc, cmd, calls, cur, saveErr, aliased, itemsDatafile, file, ioOK,
                   envSteps>>
    /\ UNCHANGED <<initial, validCreates, received, sent, reload>>

(* As if openFileWriteTruncate opened the file without O_TRUNC. *)
SaveTruncateKeepsContent ==
    /\ UNCHANGED auxVars
    /\ spc = "truncate"
    /\ IF ioOK /\ itemsDatafile # ""
       THEN file' = file /\ spc' = "write" /\ saveErr' = saveErr
       ELSE file' = file /\ spc' = "reply" /\ saveErr' = ErrOpen
    /\ UNCHANGED <<pc, cmd, result, calls, cur, resp, data, itemsList, aliased,
                   itemsDatafile, ioOK, envSteps, clock>>
    /\ UNCHANGED histVars

(* Save: openFileWriteTruncate(itemsDatafile).  On an error Save returns it *)
(* and commitFile drops it.                                                 *)
SaveTruncate ==
    /\ UNCHANGED auxVars
    /\ spc = "truncate"
    /\ IF ioOK /\ itemsDatafile # ""
       THEN file' = DocEmpty /\ spc' = "write" /\ saveErr' = saveErr
       ELSE file' = file /\ spc' = "reply" /\ saveErr' = ErrOpen
    /\ UNCHANGED <<pc, cmd, result, calls, cur, resp, data, itemsList, aliased,
                   itemsDatafile, ioOK, envSteps, clock>>
    /\ UNCHANGED histVars

(* Save: destination.Write(data), at offset 0 of the file it truncated.  If *)
(* the file got bytes from somebody else since, the write replaces as many *)
(* of them as data has: the file is data, or data followed by the rest of  *)
(* the other bytes, which is not JSON.  A failed write leaves the file     *)
(* with none or a part of the bytes; Save returns the error and commitFile *)
(* drops it.                                                               *)
SaveWrite ==
    /\ UNCHANGED auxVars
    /\ spc = "write"
    /\ IF ioOK
       THEN /\ file' \in IF file = DocEmpty THEN {data} ELSE {data, DocInvalid}
            /\ saveErr' = saveErr
       ELSE file' \in {DocEmpty, DocInvalid} /\ saveErr' = ErrWrite
    /\ spc' = "reply"
    /\ UNCHANGED <<pc, cmd, result, calls, cur, resp, data, itemsList, aliased,
                   itemsDatafile, ioOK, envSteps, clock>>
    /\ UNCHANGED histVars

(* cmd.ResultChan <- Response{...} meets `result := <-resultChan` of the    *)
(* Facade call that made the channel, which then returns.                   *)
Reply ==
    /\ UNCHANGED auxVars
    /\ spc = "reply"
    /\ \E c \in Callers :
        /\ pc[c] = "waiting"
        /\ cmd[c].ResultChan = cur.ResultChan
        /\ result' = [result EXCEPT ![c] = Unwrap(cmd[c].Type, resp)]
        /\ pc' = [pc EXCEPT ![c] = "idle"]
        /\ aliased' = IF cur.Type = ListAllCmd /\ resp.Error = ""
                       THEN aliased \cup {c} ELSE aliased
        /\ cmd' = [cmd EXCEPT ![c] = Command(cmd[c].Type, 0, "", "", cmd[c].ResultChan)]
    /\ sent' = [ch \in (DOMAIN sent) \cup {cur.ResultChan} |->
                  IF ch = cur.ResultChan
                  THEN (IF ch \in DOMAIN sent THEN sent[ch] ELSE 0) + 1
                  ELSE sent[ch]]
    /\ spc' = "recv"
    /\ cur' = NoCommand
    /\ resp' = NoResponse
    /\ data' = DocEmpty
    /\ saveErr' = ""
    /\ reload' = NoReload
    /\ UNCHANGED <<calls, itemsList, itemsDatafile, file, ioOK, envSteps, clock>>
    /\ UNCHANGED <<initial, validCreates, received, executed, produced, createdIDs, deleted, gone,
                   lastCreate, createdRet>>

(* ----------------------------- environment ----------------------------- *)
(* The file system starts or stops refusing to open and write the file.    *)
IOChange ==
    /\ UNCHANGED auxVars
    /\ envSteps < MaxEnvSteps
    /\ envSteps' = envSteps + 1
    /\ ioOK' = ~ioOK
    /\ UNCHANGED progVars
    /\ UNCHANGED file
    /\ UNCHANGED histVars

(* Something outside the process replaces the content of the file.         *)
ExternalDocs == {DocEmpty, DocNull, DocInvalid}

ExternalWrite ==
    /\ UNCHANGED auxVars
    /\ envSteps < MaxEnvSteps
    /\ envSteps' = envSteps + 1
    /\ \E doc \in ExternalDocs : file' = doc
    /\ file' # file
    /\ UNCHANGED progVars
    /\ UNCHANGED ioOK
    /\ UNCHANGED histVars

(* --------------------------- specifications ---------------------------- *)
Call ==
    /\ UNCHANGED auxVars
    /\ \E c \in Callers :
        \/ \E in \in CreateInputs : Create(c, in[1], in[2])
        \/ \E id \in IDArgs, in \in UpdateInputs : Update(c, id, in[1], in[2])
        \/ \E id \in IDArgs : Delete(c, id)
        \/ ListAll(c)
        \/ \E id \in IDArgs : List(c, id)

(* Calls with the arguments the store rejects. *)
CallRejected ==
    /\ UNCHANGED auxVars
    /\ \E c \in Callers :
        \/ \E in \in RejectedCreateInputs : Create(c, in[1], in[2])
        \/ \E id \in IDArgs, in \in RejectedUpdateInputs : Update(c, id, in[1], in[2])

Run == Reload \/ Execute \/ SaveTruncate \/ SaveWrite \/ Reply

(* One process, a file system that works, nobody else touching the file. *)
Next == Call \/ Run

Spec == Init /\ [][Next]_vars

(* The same with the rejected arguments among the callers' inputs. *)
NextInputs == Call \/ CallRejected \/ Run

SpecInputs == Init /\ [][NextInputs]_vars

(* Updates that leave the status out, as Create may. *)
OmittedStatusUpdateInputs == {<<"tea", "">>}

CallOmittedStatus ==
    /\ UNCHANGED auxVars
    /\ \E c \in Callers, id \in IDArgs, in \in OmittedStatusUpdateInputs :
          Update(c, id, in[1], in[2])

NextOmitted == Call \/ CallOmittedStatus \/ Run

SpecOmitted == Init /\ [][NextOmitted]_vars

(* Calls with an ID that is no ID of an Item. *)
NonPositiveIDs == {0, -1}

CallNonPositive ==
    /\ UNCHANGED auxVars
    /\ \E c \in Callers, id \in NonPositiveIDs :
          \/ Update(c, id, "tea", "in_progress")
          \/ Delete(c, id)
          \/ List(c, id)

NextIDs == Call \/ CallNonPositive \/ Run

SpecIDs == Init /\ [][NextIDs]_vars

(* The owner of a context calls its cancel function.  Actor.run hands its  *)
(* ctx to reloadStorage and to the storage functions, which log with it;   *)
(* the Facade methods do not use theirs: nothing of the program reads      *)
(* ctx.Done() or ctx.Err().                                                *)
Cancel(x) ==
    /\ ~cancelled[x].done
    /\ cancelled' = [cancelled EXCEPT ![x] = [done |-> TRUE, after |-> calls]]
    /\ UNCHANGED <<progVars, file, ioOK, envSteps, histVars,
                   trip, cli, actorInstance, http, other>>

CancelNewActor == Cancel("NewActor")

CancelFacade == Cancel("Facade")

NextCancel == Call \/ Run \/ CancelNewActor \/ CancelFacade

SpecCancel == Init /\ [][NextCancel]_vars

(* The same with a file system that may fail. *)
NextIO == Call \/ Run \/ IOChange

SpecIO == Init /\ [][NextIO]_vars

(* The same with the file also changed from outside the process. *)
NextEnv == Call \/ Run \/ IOChange \/ ExternalWrite

SpecEnv == Init /\ [][NextEnv]_vars

(* Go schedules every runnable goroutine: each step of Actor.run that can   *)
(* be taken is taken.                                                       *)
FairSpecEnv == SpecEnv /\ WF_vars(Run)

(* ============================= properties ============================== *)
(* ------------------------------ the CLI -------------------------------- *)
(* The command lines. *)
Flags(list, itemid, create, update, delete, status, description) ==
    [list |-> list, itemid |-> itemid, create |-> create, update |-> update,
     delete |-> delete, status |-> status, description |-> description]

CLIInputs ==
    {NoFlags,
     Flags(TRUE, 0, "", 0, 0, "", ""),
     Flags(TRUE, 1, "", 0, 0, "", ""),
     Flags(FALSE, 0, "milk", 0, 0, "", ""),
     Flags(FALSE, 0, "milk", 0, 0, "in_progress", ""),
     Flags(FALSE, 0, "milk", 0, 0, "has_started", ""),
     Flags(FALSE, 0, "milk", 0, 0, "completed", ""),
     Flags(FALSE, 0, "", 1, 0, "completed", "tea"),
     Flags(FALSE, 0, "", 1, 0, "in_progress", "tea"),
     Flags(FALSE, 0, "", 1, 0, "has_started", "tea"),
     Flags(FALSE, 0, "", 1, 0, "", "tea"),
     Flags(FALSE, 0, "", 1, 0, "completed", ""),
     Flags(FALSE, 0, "", 3, 0, "completed", "tea"),
     Flags(FALSE, 0, "", 0, 1, "", ""),
     Flags(FALSE, 0, "", 0, 3, "", "")}

CLIFiles == {DocEmpty, DocInvalid, Marshal(EarlierSession)}

(* The status values the switch of main lets through. *)
FlagStatusOK(status) ==
    status = "not_started" \/ status = "has_started" \/ status = "completed"

(* ListItem: its error, which main drops. *)
ListItem(list, index) == IF len(list) > 0 THEN "" ELSE "no items to list"

(* What the switch of main does: the map it leaves in itemsList, what it    *)
(* wrote to standard error, whether a storage call reached commitFile,     *)
(* whether the status check ran and passed, the error and the Item of the  *)
(* storage call.                                                           *)
Done(list, stderr, o, checked, passed) ==
    [list |-> list, stderr |-> stderr, commit |-> o.commit, panic |-> o.panic,
     err |-> o.err, item |-> o.item, checked |-> checked, passed |-> passed]

Quiet(list) == Failed("", list)

Switch(list, f, now) ==
    IF f.list THEN Done(list, {}, Quiet(list), FALSE, FALSE)
    ELSE IF f.create # ""
    THEN LET passed == f.status = "" \/ FlagStatusOK(f.status)
             status == IF passed THEN f.status ELSE "not_started"
             said == IF passed THEN {} ELSE {"Invalid status value"}
             o == CreateItem(list, f.create, status, now)
         IN IF o.err = ""
            THEN Done(o.list, said, o, TRUE, passed)
            ELSE Done(o.list, said \cup {"Failed to create item"}, o, TRUE, passed)
    ELSE IF f.update > 0
    THEN IF f.description = ""
         THEN Done(list, {"Update requires -description"}, Quiet(list), FALSE, FALSE)
         ELSE LET g == GetItemByID(list, f.update)
              IN IF g.err # ""
                 THEN Done(list, {"Item ID not found for update"}, g, FALSE, FALSE)
                 ELSE IF ~FlagStatusOK(f.status)
                 THEN Done(list, {"Invalid status value"}, Quiet(list), TRUE, FALSE)
                 ELSE LET o == UpdateItem(list, [g.item EXCEPT !.Description = f.description,
                                                                !.Status = f.status])
                      IN IF o.err = ""
                         THEN Done(o.list, {}, o, TRUE, TRUE)
                         ELSE Done(o.list, {"Failed to update item"}, o, TRUE, TRUE)
    ELSE IF f.delete > 0
    THEN LET o == DeleteItem(list, f.delete)
         IN IF o.err = ""
            THEN Done(o.list, {}, o, FALSE, FALSE)
            ELSE Done(o.list, {"Item ID not found for delete"}, o, FALSE, FALSE)
    ELSE Done(list, {"Usage"}, Quiet(list), FALSE, FALSE)

InitCLI ==
    /\ Idle
    /\ file \in CLIFiles
    /\ itemsList = EmptyItems
    /\ initial = file
    /\ trip = NoTrip
    /\ cli = NoCLI
    /\ actorInstance = FALSE
    /\ http = [c \in Callers |-> NoHandler]
    /\ other = NoOther

(* main up to the switch: a new process, flag.Parse, storage.Open; on an   *)
(* error of Open it prints it and returns.                                 *)
MainOpen ==
    /\ cli.pc \in {"none", "exited"}
    /\ cli.runs < MaxRuns
    /\ \E f \in CLIInputs :
        LET loaded == Load(file, TRUE)
        IN /\ itemsList' = IF loaded.err = "" THEN loaded.items ELSE EmptyItems
           /\ cli' = [pc |-> IF loaded.err = "" THEN "switch" ELSE "exited",
                      flags |-> f, stderr |-> {}, writes |-> 0, runs |-> cli.runs + 1,
                      before |-> file, err |-> loaded.err, item |-> ZeroItem,
                      checked |-> FALSE, passed |-> FALSE]
    /\ UNCHANGED <<actorVars, histVars, file, clock, trip, actorInstance, http, other>>

(* The switch on the flags; a storage call that changes the Collection     *)
(* saves it through commitFile.                                            *)
MainSwitch ==
    /\ cli.pc = "switch"
    /\ LET d == Switch(itemsList, cli.flags, clock + 1)
       IN /\ itemsList' = d.list
          /\ file' = IF d.commit THEN Marshal(d.list) ELSE file
          /\ clock' = IF cli.flags.create # "" /\ ~cli.flags.list /\ d.commit
                      THEN clock + 1 ELSE clock
          /\ cli' = [cli EXCEPT !.pc = IF d.panic THEN "exited" ELSE "save",
                                !.stderr = d.stderr,
                                !.writes = IF d.commit THEN 1 ELSE 0,
                                !.err = d.err, !.item = d.item,
                                !.checked = d.checked, !.passed = d.passed]
    /\ UNCHANGED <<actorVars, histVars, trip, actorInstance, http, other>>

(* The end of main: runMode is RunModeCLI, so storage.Save(ctx, storagefile). *)
MainSave ==
    /\ cli.pc = "save"
    /\ file' = Marshal(itemsList)
    /\ cli' = [cli EXCEPT !.pc = "exited", !.writes = cli.writes + 1]
    /\ UNCHANGED <<actorVars, histVars, itemsList, clock, trip, actorInstance, http, other>>

NextCLI == MainOpen \/ MainSwitch \/ MainSave

SpecCLI == InitCLI /\ [][NextCLI]_vars

(* --------------------------- HTTP handlers ------------------------------ *)
(* The requests: the last element of the path of /get/{itemid} and of      *)
(* /delete/{itemid}, and the bodies of /create and /update.                *)
PathIDs == {"1", "2", "x"}

CreateBodies ==
    {[ok |-> TRUE, ID |-> 0, Description |-> "milk", Status |-> ""],
     [ok |-> TRUE, ID |-> 0, Description |-> "", Status |-> ""],
     [ok |-> FALSE, ID |-> 0, Description |-> "", Status |-> ""]}

UpdateBodies ==
    {[ok |-> TRUE, ID |-> 1, Description |-> "tea", Status |-> "in_progress"],
     [ok |-> TRUE, ID |-> 2, Description |-> "tea", Status |-> "in_progress"],
     [ok |-> FALSE, ID |-> 0, Description |-> "", Status |-> ""]}

(* strconv.Atoi on the paths above. *)
Atoi(str) ==
    CASE str = "1" -> [n |-> 1, err |-> ""]
      [] str = "2" -> [n |-> 2, err |-> ""]
      [] OTHER -> [n |-> 0, err |-> "invalid syntax"]

StatusOK == 200
StatusBadRequest == 400
StatusNotFound == 404
StatusInternalServerError == 500

InitHTTP ==
    /\ Idle
    /\ file \in InitialFiles
    /\ itemsList = Load(file, TRUE).items
    /\ initial = file
    /\ trip = NoTrip
    /\ cli = NoCLI
    /\ actorInstance \in BOOLEAN
    /\ http = [c \in Callers |-> NoHandler]
    /\ other = NoOther

(* The goroutine of the connection is free to serve a request. *)
Free(c) == pc[c] = "idle" /\ http[c].stage \in {"none", "done"}

(* http.Error(w, ..., code) and return, before any Facade call. *)
Refuse(c, h, code) ==
    /\ http' = [http EXCEPT ![c] = [h |-> h, stage |-> "done", code |-> code,
                                    called |-> FALSE]]
    /\ UNCHANGED <<actorVars, histVars, itemsList, file, clock, trip, cli,
                   actorInstance, other>>

(* The handler is in its Facade call. *)
Calling(c, h) ==
    /\ http' = [http EXCEPT ![c] = [h |-> h, stage |-> "called", code |-> 0,
                                    called |-> TRUE]]
    /\ UNCHANGED <<trip, cli, actorInstance, other, cancelled>>

getListHandler(c) ==
    /\ Free(c)
    /\ IF ~actorInstance
       THEN Refuse(c, "getList", StatusInternalServerError)
       ELSE ListAll(c) /\ Calling(c, "getList")

getByIDHandler(c, path) ==
    /\ Free(c)
    /\ IF ~actorInstance
       THEN Refuse(c, "getByID", StatusInternalServerError)
       ELSE IF Atoi(path).err # ""
       THEN Refuse(c, "getByID", StatusBadRequest)
       ELSE List(c, Atoi(path).n) /\ Calling(c, "getByID")

createItemHandler(c, todo) ==
    /\ Free(c)
    /\ IF ~actorInstance
       THEN Refuse(c, "create", StatusInternalServerError)
       ELSE IF ~todo.ok
       THEN Refuse(c, "create", StatusBadRequest)
       ELSE Create(c, todo.Description, todo.Status) /\ Calling(c, "create")

updateItemHandler(c, todo) ==
    /\ Free(c)
    /\ IF ~actorInstance
       THEN Refuse(c, "update", StatusInternalServerError)
       ELSE IF ~todo.ok
       THEN Refuse(c, "update", StatusBadRequest)
       ELSE Update(c, todo.ID, todo.Description, todo.Status) /\ Calling(c, "update")

deleteItemHandler(c, path) ==
    /\ Free(c)
    /\ IF ~actorInstance
       THEN Refuse(c, "delete", StatusInternalServerError)
       ELSE IF Atoi(path).err # ""
       THEN Refuse(c, "delete", StatusBadRequest)
       ELSE Delete(c, Atoi(path).n) /\ Calling(c, "delete")

(* dynamicListHandler does not look at actorInstance: with none the call   *)
(* of ListAll on the nil interface panics and no response is written.      *)
dynamicListHandler(c) ==
    /\ Free(c)
    /\ IF ~actorInstance
       THEN /\ http' = [http EXCEPT ![c] = [h |-> "dynamicList", stage |-> "panicked",
                                            code |-> 0, called |-> FALSE]]
            /\ UNCHANGED <<actorVars, histVars, itemsList, file, clock, trip, cli,
                           actorInstance, other>>
       ELSE ListAll(c) /\ Calling(c, "dynamicList")

(* The status each handler writes once its Facade call has returned. *)
StatusAfter(h, err) ==
    IF err = "" THEN StatusOK
    ELSE CASE h = "getList" -> StatusInternalServerError
           [] h = "getByID" -> StatusNotFound
           [] h = "create" -> StatusInternalServerError
           [] h = "update" -> StatusInternalServerError
           [] h = "delete" -> StatusNotFound
           [] OTHER -> StatusInternalServerError

(* The rest of a handler, from the return of its Facade call. *)
WriteResponse ==
    \E c \in Callers :
        /\ http[c].stage = "called"
        /\ pc[c] = "idle"
        /\ http' = [http EXCEPT ![c].stage = "done",
                                ![c].code = StatusAfter(http[c].h, result[c].Error)]
        /\ UNCHANGED <<actorVars, histVars, itemsList, file, clock, trip, cli,
                       actorInstance, other>>

Request ==
    \E c \in Callers :
        \/ getListHandler(c)
        \/ \E path \in PathIDs : getByIDHandler(c, path)
        \/ \E todo \in CreateBodies : createItemHandler(c, todo)
        \/ \E todo \in UpdateBodies : updateItemHandler(c, todo)
        \/ \E path \in PathIDs : deleteItemHandler(c, path)
        \/ dynamicListHandler(c)

NextHTTP == Request \/ WriteResponse \/ Run

SpecHTTP == InitHTTP /\ [][NextHTTP]_vars

(* ------------------ another process on the same file ------------------ *)
(* The other process is the same program: it loads the file (storage.Open  *)
(* or the reload of its command) and later runs CreateItem, whose          *)
(* commitFile saves its Collection to the same path.                       *)
OtherOpen ==
    /\ other.pc = "none"
    /\ LET loaded == Load(file, TRUE)
       IN /\ loaded.err = ""
          /\ other' = [other EXCEPT !.pc = "loaded", !.list = loaded.items,
                                     !.inSave = (spc = "write")]
    /\ UNCHANGED <<actorVars, histVars, itemsList, file, clock, trip, cli,
                   actorInstance, http>>

OtherCreate ==
    /\ other.pc = "loaded"
    /\ LET o == CreateItem(other.list, "soap", "", clock)
       IN /\ ~o.panic
          /\ file' = Marshal(o.list)
          /\ other' = [pc |-> "done", list |-> o.list, id |-> o.item.ID,
                       doc |-> Marshal(o.list), savedAt |-> spc,
                       chan |-> cur.ResultChan, execAt |-> Len(executed),
                       inSave |-> other.inSave]
    /\ UNCHANGED <<actorVars, histVars, itemsList, clock, trip, cli, actorInstance, http>>

NextShared == Call \/ Run \/ OtherOpen \/ OtherCreate

SpecShared == Init /\ [][NextShared]_vars

(* ------------------- a direct user of Save and Load --------------------- *)
(* The Collections and the files the user starts from. *)
TripKeys == {1, 2}

TripFields ==
    [d : {"milk", "tea"}, s : {"not_started", "completed"}, t : {1, 2}]

TripCollections ==
    {NilItems} \cup
    UNION { { MakeItems([k \in K |-> Item(k, f[k].d, f[k].s, f[k].t)]) :
                f \in [K -> TripFields] } : K \in SUBSET TripKeys }

TripFiles == {DocEmpty, DocNull, DocInvalid, Marshal(EarlierSession)}

InitStorage ==
    /\ Idle
    /\ itemsList \in TripCollections
    /\ file \in TripFiles
    /\ initial = file
    /\ trip = [step |-> "start", loaded |-> LoadResult(NilItems, ""), first |-> DocEmpty,
               c |-> itemsList]
    /\ cli = NoCLI
    /\ actorInstance = FALSE
    /\ http = [c \in Callers |-> NoHandler]
    /\ other = NoOther

(* Save(ctx, datafile) with a file system that works. *)
TripSave ==
    /\ trip.step \in {"start", "opened"}
    /\ file' = Marshal(itemsList)
    /\ trip' = [trip EXCEPT !.step = IF trip.step = "start" THEN "saved" ELSE "resaved",
                            !.first = IF trip.step = "start" THEN Marshal(itemsList)
                                      ELSE trip.first]
    /\ UNCHANGED <<actorVars, histVars, itemsList, clock, cli, actorInstance, http, other>>

(* Load(ctx, datafile): of the file found, or of the file Save wrote. *)
TripLoad ==
    /\ trip.step \in {"start", "saved"}
    /\ trip' = [trip EXCEPT !.step = IF trip.step = "start" THEN "loaded" ELSE "reloaded",
                            !.loaded = Load(file, TRUE)]
    /\ UNCHANGED <<actorVars, histVars, itemsList, file, clock, cli, actorInstance,
                   http, other>>

(* Open(ctx, datafile) of the file Save wrote: Load, and the Collection it *)
(* returned becomes itemsList.                                             *)
TripOpen ==
    /\ trip.step \in {"saved", "reloaded"}
    /\ LET loaded == Load(file, TRUE)
       IN /\ loaded.err = ""
          /\ itemsList' = loaded.items
          /\ trip' = [trip EXCEPT !.step = "opened", !.loaded = loaded]
    /\ UNCHANGED <<actorVars, histVars, file, clock, cli, actorInstance, http, other>>

NextStorage == TripSave \/ TripLoad \/ TripOpen

SpecStorage == InitStorage /\ [][NextStorage]_vars

Waiting == {c \in Callers : pc[c] = "waiting"}

Replied == {ch \in DOMAIN sent : sent[ch] > 0}

Returned(c) == pc[c] = "idle" /\ cmd[c].ResultChan # 0

Mutating == {CreateCmd, UpdateCmd, DeleteCmd}

(* C1: at most one command is in execution at any time: the commands       *)
(* Actor.run has received are all executed and answered except at most the *)
(* one it is working on, exactly the caller of that one is waiting, and    *)
(* when Actor.run is back at its receive nothing is left unfinished.       *)
C1_OneCommandAtATime ==
    /\ Cardinality(Waiting) <= 1
    /\ Len(received) <= Len(executed) + 1
    /\ Len(received) <= Cardinality(Replied) + 1
    /\ spc = "recv" =>
          /\ Waiting = {}
          /\ Len(executed) = Len(received)
          /\ Cardinality(Replied) = Len(received)
    /\ spc \notin {"recv", "panicked"} =>
          /\ \E c \in Callers : Waiting = {c} /\ cmd[c] = cur
          /\ Cardinality(Replied) = Len(received) - 1

(* A second command was received and Actor.run is in the middle of its     *)
(* Save while another caller is free to call.                              *)
C1_Witness ==
    /\ spc = "write"
    /\ Len(received) = 2
    /\ \E c \in Callers : pc[c] = "idle" /\ calls < MaxCalls

(* C3: the commands are executed in the order Actor.run received them:     *)
(* the sequence of executed commands is always the beginning of the        *)
(* sequence of received ones, whatever their types.                        *)
C3_ExecutedInReceiveOrder ==
    /\ Len(executed) <= Len(received)
    /\ executed = SubSeq(received, 1, Len(executed))

(* Three commands of different types, from both callers, were executed. *)
C3_Witness ==
    /\ Len(executed) = 3
    /\ cur.Type = ListAllCmd
    /\ \E c, d \in Callers :
          c # d /\ Returned(c) /\ cmd[c].Type = CreateCmd /\ pc[d] = "waiting"

(* C6: what a Facade call returns is the Response produced for its own     *)
(* Command: the same error, and on success the same Item or Items.         *)
C6_OwnResponse ==
    \A c \in Callers :
        Returned(c) =>
            LET ch == cmd[c].ResultChan
            IN /\ ch \in DOMAIN produced
               /\ result[c].Error = produced[ch].Error
               /\ produced[ch].Error = "" =>
                     /\ cmd[c].Type # ListAllCmd => result[c].Item = produced[ch].Item
                     /\ cmd[c].Type = ListAllCmd => result[c].Items = produced[ch].Items

(* Both callers have returned, one with an error and one with an Item. *)
C6_Witness ==
    /\ Returned(1) /\ Returned(2)
    /\ result[1].Error # "" /\ result[2].Error = ""
    /\ result[2].Item.ID = 1

(* The largest element of a non-empty set of integers. *)
MaxOf(S) == CHOOSE k \in S : \A j \in S : j <= k

(* 1 .. n as a sequence. *)
UpTo(n) == [i \in 1..n |-> i]

(* C2: on an initially empty store, as long as every command received is a *)
(* Create with valid inputs, every one of them succeeds and the IDs handed *)
(* out are 1, 2, ... with no duplicate and no gap; a ListAll received      *)
(* after N >= 1 such Creates is answered with exactly the N items 1..N.    *)
C2_ConcurrentCreates ==
    initial = DocEmpty =>
        /\ validCreates = Len(received) =>
              /\ createdIDs = UpTo(Len(executed))
              /\ \A c \in Callers :
                    Returned(c) =>
                        /\ result[c].Error = ""
                        /\ result[c].Item.ID \in 1..Len(executed)
                        /\ \A d \in Callers :
                              d # c /\ Returned(d) => result[d].Item.ID # result[c].Item.ID
        /\ ( /\ validCreates = Len(received) - 1
             /\ validCreates >= 1
             /\ cur.Type = ListAllCmd
             /\ spc = "reply" ) =>
              /\ resp.Error = ""
              /\ DOMAIN resp.Items.m = 1..validCreates
              /\ len(resp.Items) = validCreates

(* Both callers' Creates on the empty store have returned, with IDs 1 and  *)
(* 2, and the ListAll sent after them is about to be answered.             *)
C2_Witness ==
    /\ initial = DocEmpty
    /\ validCreates = 2
    /\ spc = "reply" /\ cur.Type = ListAllCmd
    /\ len(resp.Items) = 2
    /\ \E c, d \in Callers :
          /\ c # d /\ pc[d] = "idle" /\ cmd[d].Type = CreateCmd
          /\ pc[c] = "waiting"

(* C7: Create assigns 1 + the largest ID of the Collection it runs on (1   *)
(* on an empty one), and a Get of an ID answers with the very Item Create  *)
(* returned for it as long as no Update or Delete of that ID succeeded.    *)
C7_CreateThenGet ==
    /\ lastCreate.id # 0 =>
          lastCreate.id = IF lastCreate.keys = {} THEN 1 ELSE 1 + MaxOf(lastCreate.keys)
    /\ ( spc = "reply" /\ cur.Type = ListCmd /\ cur.ID \in DOMAIN createdRet ) =>
          /\ resp.Error = ""
          /\ resp.Item = createdRet[cur.ID]

(* A Create on a Collection holding 1 returned ID 2 to its caller, and the *)
(* Get(2) that followed is about to be answered with that Item.            *)
C7_Witness ==
    /\ spc = "reply" /\ cur.Type = ListCmd /\ cur.ID = 2
    /\ lastCreate.id = 2 /\ lastCreate.keys = {1}
    /\ resp.Item.ID = 2 /\ resp.Item.Created > 2
    /\ \E c \in Callers : Returned(c) /\ cmd[c].Type = CreateCmd /\ result[c].Item.ID = 2

C4_ExactlyOneResponse ==
    /\ \A ch \in DOMAIN sent : sent[ch] = 1
    /\ \A i, j \in DOMAIN executed : executed[i] = executed[j] => i = j
    /\ \A i \in DOMAIN received :
          received[i] # cur.ResultChan =>
              /\ \E j \in DOMAIN executed : executed[j] = received[i]
              /\ received[i] \in Replied
    /\ spc = "panicked" => cur.ResultChan \in Replied

(* C5: under fair scheduling every Facade call that was submitted          *)
(* eventually returns to its caller.                                       *)
C5_EveryCallReturns ==
    \A c \in Callers : (pc[c] = "waiting") ~> (pc[c] = "idle")

(* C9: when a Create, Update or Delete is about to be answered with        *)
(* success, the backing file holds the whole Collection, that mutation     *)
(* included.                                                               *)
C9_SavedBeforeReply ==
    ( spc = "reply" /\ cur.Type \in Mutating /\ resp.Error = "" ) =>
        file = Marshal(itemsList)

(* C10: a command whose reload step failed is answered with that error,    *)
(* and has changed neither the in-memory Collection nor the backing file.  *)
C10_ReloadFailureReported ==
    ( spc = "reply" /\ reload.err # "" ) =>
        /\ resp.Error = reload.err
        /\ itemsList = reload.list
        /\ file = reload.file

(* C11: a Create, Update or Delete whose Save failed (the file could not   *)
(* be opened for writing, or the write failed) is answered with that       *)
(* error, not with a success.                                              *)
C11_SaveFailureReported ==
    ( spc = "reply" /\ cur.Type \in Mutating /\ saveErr # "" ) =>
        resp.Error = saveErr

(* C12: no command stops Actor.run, whatever the file holds at its reload  *)
(* and whatever its inputs: the loop is never left by a panic.             *)
C12_LoopNeverStops ==
    spc # "panicked"

(* The Collection stored in the file the current command's reload read. *)
Stored == loadItem(reload.file).items

(* C13: a Get or ListAll answers from the Collection stored in the file at *)
(* its reload: an Item or Collection it replies with is the one the file   *)
(* held then, never one that only the memory holds.                        *)
C13_ReadsFromFile ==
    ( spc = "reply" /\ cur.Type \in {ListCmd, ListAllCmd} /\ resp.Error = "" ) =>
        /\ loadItem(reload.file).err = ""
        /\ cur.Type = ListAllCmd => resp.Items = Stored
        /\ cur.Type = ListCmd =>
              /\ cur.ID \in DOMAIN Stored.m
              /\ resp.Item = Stored.m[cur.ID]

(* C14: a successful Update leaves the ID and the Created of the item as   *)
(* they were before it, in the Item it returns, in the Collection and in   *)
(* the file.                                                               *)
C14_UpdateKeepsIDAndCreated ==
    ( spc = "reply" /\ cur.Type = UpdateCmd /\ resp.Error = "" ) =>
        LET before == Stored.m[cur.ID]
        IN /\ resp.Item.ID = before.ID
           /\ resp.Item.Created = before.Created
           /\ itemsList.m[cur.ID].ID = before.ID
           /\ itemsList.m[cur.ID].Created = before.Created
           /\ loadItem(file).items.m[cur.ID].ID = before.ID
           /\ loadItem(file).items.m[cur.ID].Created = before.Created

(* The statuses of the enum. *)
StatusEnum == {"not_started", "in_progress", "completed"}

NotFoundError(err) == err \in {"item not found", "no items available"}

(* C16: a Get of an ID that a Delete removed, and that no Create has       *)
(* assigned since, is answered with a not-found error; a Delete of a       *)
(* positive ID that is not in the Collection is answered with 'item not    *)
(* found' and leaves the Collection and the file as they were.             *)
C16_DeleteThenGet ==
    /\ ( spc = "reply" /\ cur.Type = ListCmd /\ cur.ID \in gone ) =>
          NotFoundError(resp.Error)
    /\ ( /\ spc = "reply" /\ cur.Type = DeleteCmd
         /\ cur.ID >= 1 /\ cur.ID \notin DOMAIN Stored.m ) =>
          /\ resp.Error = "item not found"
          /\ itemsList = Stored
          /\ file = reload.file

(* Item 1 of two was deleted, and the Get(1) after it is about to be       *)
(* answered 'item not found'.                                              *)
C16_Witness ==
    /\ spc = "reply" /\ cur.Type = ListCmd /\ cur.ID = 1
    /\ gone = {1}
    /\ DOMAIN itemsList.m = {2}
    /\ resp.Error = "item not found"

(* The errors by which the store rejects a description or a status. *)
ValidationError(err) == err \in {"description cannot be empty", "invalid status value"}

(* C17: a Create or Update with an empty description, or with a status     *)
(* that is neither omitted nor of the enum, is answered with a validation  *)
(* error and leaves the Collection and the file as they were.              *)
C17_RejectedChangesNothing ==
    ( /\ spc = "reply" /\ cur.Type \in {CreateCmd, UpdateCmd}
      /\ cur.Type = UpdateCmd => cur.ID >= 1
      /\ ~ValidInput(cur.Description, cur.Status) ) =>
        /\ ValidationError(resp.Error)
        /\ itemsList = Stored
        /\ file = reload.file

(* Update(1, "tea", "has_started") on the store of the earlier session is  *)
(* about to be answered 'invalid status value', and after a Create("",     *)
(* "not_started") was answered with an error; item 1 is still "bread".     *)
C17_Witness ==
    /\ spc = "reply" /\ cur.Type = UpdateCmd /\ cur.ID = 1
    /\ cur.Status = "has_started"
    /\ resp.Error = "invalid status value"
    /\ 1 \in DOMAIN itemsList.m
    /\ itemsList.m[1].Description = "bread"
    /\ \E c \in Callers :
          /\ Returned(c) /\ cmd[c].Type = CreateCmd
          /\ result[c].Error = "description cannot be empty"

(* C18: a Get of a positive ID works on the Collection its reload loaded,  *)
(* and is answered with the Item stored under the ID when the ID is a key  *)
(* of it, and with a not-found error and no Item when it is not, the empty *)
(* Collection included.                                                    *)
C18_GetByID ==
    ( spc = "reply" /\ cur.Type = ListCmd /\ cur.ID >= 1 ) =>
        /\ itemsList = Stored
        /\ IF cur.ID \in DOMAIN Stored.m
           THEN resp.Error = "" /\ resp.Item = Stored.m[cur.ID]
           ELSE NotFoundError(resp.Error) /\ resp.Item = ZeroItem

(* A Get on a Collection emptied by two Deletes is about to be answered    *)
(* 'no items available'.                                                   *)
C18_Witness ==
    /\ spc = "reply" /\ cur.Type = ListCmd
    /\ initial # DocEmpty
    /\ len(itemsList) = 0
    /\ resp.Error = "no items available"

(* C19: a ListAll is answered with the whole Collection and no error, the  *)
(* empty Collection included.                                              *)
C19_ListAllNeverFails ==
    ( spc = "reply" /\ cur.Type = ListAllCmd ) =>
        /\ resp.Error = ""
        /\ resp.Items = Stored

(* C20: the Collection a ListAll returned is a copy: as long as its caller *)
(* holds it, no step of a later command changes its contents.              *)
C20_ListAllIsACopy ==
    [][ \A c \in Callers :
          ( Returned(c) /\ cmd[c].Type = ListAllCmd /\ cmd'[c] = cmd[c] ) =>
              result'[c].Items = result[c].Items ]_vars

(* C21: a Create with a non-empty description and no status stores and     *)
(* returns an Item whose Status is not_started; on an initially empty      *)
(* store the first such Create is given ID 1 and the second, with the same *)
(* description, ID 2.                                                      *)
C21_DefaultStatus ==
    ( spc = "reply" /\ cur.Type = CreateCmd /\ cur.Description # "" /\ cur.Status = "" ) =>
        /\ resp.Error = ""
        /\ resp.Item.Status = "not_started"
        /\ resp.Item.Description = cur.Description
        /\ resp.Item.ID \in DOMAIN itemsList.m
        /\ itemsList.m[resp.Item.ID] = resp.Item
        /\ resp.Item.ID \in DOMAIN loadItem(file).items.m
        /\ loadItem(file).items.m[resp.Item.ID] = resp.Item
        /\ ( /\ initial = DocEmpty
             /\ validCreates = Len(received)
             /\ Len(executed) <= 2 ) => resp.Item.ID = Len(executed)

(* On the empty store a Create of "milk" without status returned ID 1, and *)
(* the second one, same description, is about to be answered with ID 2 and *)
(* Status not_started.                                                     *)
C21_Witness ==
    /\ spc = "reply" /\ cur.Type = CreateCmd /\ cur.Description = "milk" /\ cur.Status = ""
    /\ initial = DocEmpty /\ Len(executed) = 2
    /\ resp.Item.ID = 2 /\ resp.Item.Status = "not_started"
    /\ \E c \in Callers :
          /\ Returned(c) /\ cmd[c].Type = CreateCmd
          /\ result[c].Item.ID = 1 /\ result[c].Item.Description = "milk"
          /\ result[c].Item.Status = "not_started"

ParseError(err) == err = ErrParse

(* C23: Load of an empty file returns an empty Collection and no error;    *)
(* Load of a file whose bytes are not JSON returns a ParseError.           *)
C23_LoadEmptyAndInvalid ==
    trip.step = "loaded" =>
        /\ file.kind = "empty" =>
              /\ trip.loaded.err = ""
              /\ ~trip.loaded.items.isNil
              /\ len(trip.loaded.items) = 0
        /\ file.kind = "invalid" => ParseError(trip.loaded.err)

(* Load ran on the empty file and returned the empty Collection. *)
C23_Witness ==
    /\ trip.step = "loaded" /\ file = DocEmpty
    /\ trip.loaded = LoadResult(EmptyItems, "")

(* C24: the in-memory Collection is touched by Actor.run only: in no       *)
(* reachable state is Actor.run about to run a changing storage operation  *)
(* on the map while another goroutine, back from its Facade call, holds    *)
(* that very map and reads it.                                             *)
C24_OnlyTheSerializerTouches ==
    ~( /\ spc = "exec" /\ cur.Type \in Mutating
       /\ \E c \in aliased : pc[c] = "idle" )

(* C25: when another process saves to the path between the reload and the *)
(* Save of a command, the file afterwards holds exactly the Collection of  *)
(* the Save that ran last: after the command's own Save it is the          *)
(* Collection in memory, without the Item the other process added; and as  *)
(* long as no Save of this process followed the other one's, it is the     *)
(* other process's Collection.                                             *)
C25_LastSaveWins ==
    other.pc = "done" =>
        /\ ( /\ spc = "reply" /\ other.chan = cur.ResultChan
             /\ other.savedAt \in {"exec", "truncate"}
             /\ cur.Type \in Mutating /\ resp.Error = "" ) =>
              /\ file = Marshal(itemsList)
              /\ \A k \in DOMAIN loadItem(file).items.m :
                    loadItem(file).items.m[k].Description # "soap"
        /\ ( /\ other.execAt = Len(executed)
             /\ other.savedAt \in {"recv", "reload", "exec", "reply"} ) =>
              file = other.doc

(* Both processes loaded the file holding 1 and 2, the other one saved its *)
(* Item 3 before this one's Create saved: both assigned ID 3, and the file *)
(* holds this process's Item only.                                         *)
C25_Witness ==
    /\ spc = "reply" /\ cur.Type = CreateCmd /\ resp.Error = ""
    /\ other.pc = "done" /\ other.chan = cur.ResultChan /\ other.savedAt = "exec"
    /\ other.id = 3 /\ resp.Item.ID = 3
    /\ file = Marshal(itemsList) /\ file # other.doc
    /\ loadItem(file).items.m[3].Description = "milk"

(* The errors of the file system and of the JSON decoder. *)
IOError(err) == err \in {ErrOpen, ErrWrite}

(* C26: a handler whose Facade call returned an error answers by the class *)
(* of the error: 400 for a ValidationError, 404 for a NotFoundError, 500    *)
(* for an IOError or ParseError, whichever of create, update, delete and   *)
(* get it is.                                                              *)
C26_StatusByErrorClass ==
    \A c \in Callers :
        ( http[c].stage = "done" /\ http[c].called
          /\ http[c].h \in {"create", "update", "delete", "getByID"} ) =>
            /\ ValidationError(result[c].Error) => http[c].code = StatusBadRequest
            /\ NotFoundError(result[c].Error) => http[c].code = StatusNotFound
            /\ ( IOError(result[c].Error) \/ ParseError(result[c].Error) ) =>
                  http[c].code = StatusInternalServerError

(* C27: with no actor initialised every handler that ran answered 500 and  *)
(* made no Facade call.                                                    *)
C27_NoActorAnswers500 ==
    ~actorInstance =>
        \A c \in Callers :
            http[c].stage # "none" =>
                /\ http[c].stage = "done"
                /\ http[c].code = StatusInternalServerError
                /\ ~http[c].called

(* C28: an invocation of the CLI that wrote an error or the usage text to  *)
(* standard error has not written the backing file when it exits.          *)
C28_ErrorWritesNothing ==
    ( cli.pc = "exited" /\ cli.stderr # {} ) =>
        /\ cli.writes = 0
        /\ file = cli.before

(* C29: the CLI and the store accept the same status values for -create    *)
(* and -update: a status the switch of main lets through is accepted by    *)
(* CreateItem/UpdateItem, and a status the store accepts is let through.   *)
C29_SameStatusSet ==
    ( cli.pc \in {"save", "exited"} /\ cli.checked /\ cli.flags.status # "" ) =>
        /\ cli.passed => cli.err = "" /\ cli.item.Status = cli.flags.status
        /\ ValidStatus(cli.flags.status) => cli.passed

(* C30: execution respects the real-time order of the calls: when a Facade *)
(* call is invoked, every call that has returned was executed and the new  *)
(* one was not, and what was executed stays in its place; so a call sees   *)
(* the effect of those that returned before it: a Get replying after the   *)
(* Create that returned its ID finds the Item, and one replying after the  *)
(* Delete of its ID returned does not.                                     *)
C30_RealTimeOrder ==
    [][ /\ calls' = calls + 1 =>
              /\ \A ch \in Replied : \E i \in DOMAIN executed : executed[i] = ch
              /\ \A i \in DOMAIN executed : executed[i] # calls + 1
        /\ \A i \in DOMAIN executed :
              i \in DOMAIN executed' /\ executed'[i] = executed[i]
        /\ ( spc = "reply" /\ spc' = "recv" /\ cur.Type = ListCmd ) =>
              /\ cur.ID \in DOMAIN createdRet =>
                    resp.Error = "" /\ resp.Item.ID = cur.ID
              /\ cur.ID \in gone => NotFoundError(resp.Error) ]_vars

(* Caller 1's Create returned ID 1, then its Delete(1) returned, and the   *)
(* Get(1) the other caller invoked after that is about to be answered with *)
(* a not-found error.                                                      *)
C30_Witness ==
    /\ spc = "reply" /\ cur.Type = ListCmd /\ cur.ID = 1 /\ cur.ResultChan = 3
    /\ initial = DocEmpty /\ createdIDs = <<1>> /\ gone = {1}
    /\ executed = <<1, 2, 3>>
    /\ NotFoundError(resp.Error)
    /\ \E a \in Callers :
          /\ Returned(a) /\ cmd[a].Type = DeleteCmd /\ cmd[a].ResultChan = 2
          /\ result[a].Error = ""

(* C32: Create and Update validate (description, status) by one rule: the  *)
(* description is non-empty and the status is of the enum or left out, and *)
(* a status left out is stored as not_started; so a pair Create accepts is *)
(* accepted by an Update of an ID the Collection holds.                    *)
C32_SameValidation ==
    ( /\ spc = "reply"
      /\ \/ cur.Type = CreateCmd
         \/ cur.Type = UpdateCmd /\ cur.ID \in DOMAIN Stored.m ) =>
        /\ resp.Error = "" <=> ValidInput(cur.Description, cur.Status)
        /\ ( resp.Error = "" /\ cur.Status = "" ) => resp.Item.Status = "not_started"

(* C31: in a run without Delete on a store that holds the IDs used, every  *)
(* Create with valid inputs, ListAll, Update of such an ID with valid      *)
(* inputs and Get of such an ID replies without error, however the calls   *)
(* interleave; an Update replies with, and leaves stored, the description  *)
(* and status it was given, and a Get replies with the stored Item.        *)
C31_MixedCallsSucceed ==
    ( /\ spc = "reply"
      /\ initial = Marshal(EarlierSession)
      /\ deleted = {} /\ cur.Type # DeleteCmd
      /\ cur.Type \in {CreateCmd, UpdateCmd} => ValidInput(cur.Description, cur.Status) ) =>
        /\ resp.Error = ""
        /\ cur.Type = UpdateCmd =>
              /\ resp.Item.Description = cur.Description
              /\ resp.Item.Status = cur.Status
              /\ itemsList.m[cur.ID] = resp.Item
        /\ cur.Type = ListCmd => resp.Item = itemsList.m[cur.ID]

(* An entry of a Collection as the data model wants it. *)
WellFormed(list) ==
    \A k \in DOMAIN list.m :
        /\ list.m[k].ID = k
        /\ k >= 1
        /\ list.m[k].Description # ""
        /\ list.m[k].Status \in StatusEnum
        /\ \A j \in DOMAIN list.m : j # k => list.m[j].ID # list.m[k].ID

(* C33: starting from an empty store, whatever commands were sent, every   *)
(* entry of the Collection, in memory and in the file, has its key as ID,  *)
(* an ID >= 1, a non-empty Description and a Status of the enum, and no    *)
(* two entries share an ID.                                                *)
C33_EntriesWellFormed ==
    initial = DocEmpty =>
        /\ WellFormed(itemsList)
        /\ WellFormed(loadItem(file).items)

(* After a Create on the empty store an Update of item 1 with a status     *)
(* outside the enum is about to be answered with an error, the entry as it *)
(* was.                                                                    *)
C33_Witness ==
    /\ initial = DocEmpty
    /\ spc = "reply" /\ cur.Type = UpdateCmd /\ cur.ID = 1 /\ cur.Status = "has_started"
    /\ resp.Error = "invalid status value"
    /\ DOMAIN itemsList.m = {1}
    /\ itemsList.m[1] = Item(1, "milk", "not_started", 3)
    /\ file = Marshal(itemsList)

(* C34: the content of the file changes only in the Save of a Create,      *)
(* Update or Delete that replies success, which runs once, from the case   *)
(* of the command, and rewrites the file whole: truncate, then the whole   *)
(* Collection; a Get, a ListAll and every command that replies an error    *)
(* are answered with the file as their reload found it.                    *)
C34_OnlySuccessWrites ==
    [][ /\ file' # file =>
              /\ cur.Type \in Mutating /\ resp.Error = ""
              /\ \/ spc = "truncate" /\ file' = DocEmpty
                 \/ spc = "write" /\ file' = Marshal(itemsList)
        /\ spc' = "truncate" => spc = "exec"
        /\ spc' = "write" => spc = "truncate"
        /\ ( spc = "reply" /\ spc' = "recv" ) =>
              IF cur.Type \in Mutating /\ resp.Error = ""
              THEN file = Marshal(itemsList)
              ELSE file = reload.file ]_vars

(* Delete(1) on the store of two is about to reply success with the file   *)
(* rewritten, after a Get that left it alone.                              *)
C34_Witness ==
    /\ spc = "reply" /\ cur.Type = DeleteCmd /\ cur.ID = 1 /\ resp.Error = ""
    /\ file = Marshal(itemsList) /\ file # reload.file
    /\ DOMAIN itemsList.m = {2}
    /\ \E c \in Callers : Returned(c) /\ cmd[c].Type = ListCmd /\ result[c].Error = ""

(* C35: a mutating command that succeeds changes one entry of the          *)
(* Collection it ran on: Create adds one new key, Delete removes the key   *)
(* it names, Update replaces the entry under the key it names; every other *)
(* entry is the same before and after, in memory and in the file.          *)
C35_OneEntryChanged ==
    ( spc = "reply" /\ cur.Type \in Mutating /\ resp.Error = "" ) =>
        LET old == Stored.m
            new == itemsList.m
        IN /\ loadItem(file).items = itemsList
           /\ cur.Type = CreateCmd =>
                 /\ resp.Item.ID \notin DOMAIN old
                 /\ DOMAIN new = DOMAIN old \cup {resp.Item.ID}
                 /\ \A k \in DOMAIN old : new[k] = old[k]
           /\ cur.Type = DeleteCmd =>
                 /\ cur.ID \in DOMAIN old
                 /\ DOMAIN new = DOMAIN old \ {cur.ID}
                 /\ \A k \in DOMAIN new : new[k] = old[k]
           /\ cur.Type = UpdateCmd =>
                 /\ DOMAIN new = DOMAIN old
                 /\ \A k \in DOMAIN old : k # cur.ID => new[k] = old[k]

(* Update(1) on the store of two is about to reply: entry 1 is the new     *)
(* one, entry 2 the one the file held.                                     *)
C35_Witness ==
    /\ spc = "reply" /\ cur.Type = UpdateCmd /\ cur.ID = 1 /\ resp.Error = ""
    /\ DOMAIN Stored.m = {1, 2} /\ DOMAIN itemsList.m = {1, 2}
    /\ itemsList.m[1] # Stored.m[1]
    /\ itemsList.m[2] = Stored.m[2]
    /\ loadItem(file).items.m[2] = Stored.m[2]

(* C36: an Update, a Delete and a Get with an ID <= 0 reply with an error  *)
(* and leave the Collection and the file as they were, whatever the        *)
(* Collection holds.                                                       *)
C36_NonPositiveID ==
    ( spc = "reply" /\ cur.Type \in {UpdateCmd, DeleteCmd, ListCmd} /\ cur.ID <= 0 ) =>
        /\ resp.Error # ""
        /\ resp.Item = ZeroItem
        /\ itemsList = reload.list
        /\ itemsList = Stored
        /\ file = reload.file

(* Update(0, ...) on the store of two is about to be answered 'invalid     *)
(* item ID', both Items in place.                                          *)
C36_Witness ==
    /\ spc = "reply" /\ cur.Type = UpdateCmd /\ cur.ID = 0
    /\ resp.Error = "invalid item ID"
    /\ DOMAIN itemsList.m = {1, 2}
    /\ file = Marshal(EarlierSession)

(* C37: cancelling the context passed to NewActor or to a Facade method    *)
(* has no effect.  Whatever is cancelled: Actor.run is at one of the        *)
(* positions of its loop and its next step is enabled, at the receive a     *)
(* caller that is free can still hand it a command; the command it holds    *)
(* stays the one it holds until its Response was sent; a waiting caller     *)
(* returns only in the step that sends the Response on its own reply        *)
(* channel, with that Response.                                             *)
C37_CancelHasNoEffect ==
    [][ /\ spc \in {"recv", "reload", "exec", "truncate", "write", "reply"}
        /\ spc # "recv" => ENABLED Run
        /\ (spc = "recv" /\ calls < MaxCalls) => ENABLED Call
        /\ (cur # NoCommand /\ cur' # cur) => (spc = "reply" /\ cur' = NoCommand)
        /\ \A c \in Callers :
              (pc[c] = "waiting" /\ pc'[c] # "waiting") =>
                  /\ spc = "reply"
                  /\ cur.ResultChan = cmd[c].ResultChan
                  /\ result'[c] = Unwrap(cmd[c].Type, resp)
      ]_vars

(* Both contexts were cancelled before the second call; that call and a    *)
(* third were received and executed, and the third is about to be replied. *)
C37_Witness ==
    /\ cancelled["NewActor"].done /\ cancelled["NewActor"].after = 1
    /\ cancelled["Facade"].done /\ cancelled["Facade"].after = 0
    /\ Len(executed) = 3
    /\ spc = "reply"
    /\ resp.Error = ""
    /\ \E c \in Callers : pc[c] = "waiting" /\ cmd[c].ResultChan = 3

(* C38: Save truncates the file and then writes it, and an empty file      *)
(* loads as the empty Collection.  Another process that loads the file      *)
(* between the two steps gets the empty Collection; its Create assigns ID 1 *)
(* and the file it saves holds that item alone.  In the process of the      *)
(* Actor no reload falls inside a Save: as long as no other process has     *)
(* written the file, the file a reload is about to read is never the        *)
(* truncated one of a Save in progress, it holds the Collection in memory.  *)
C38_TruncateWindow ==
    /\ (spc = "write" /\ other.pc # "done") =>
          file = DocEmpty /\ loadItem(file) = LoadResult(EmptyItems, "")
    /\ (other.inSave /\ other.pc = "loaded") => other.list = EmptyItems
    /\ (other.inSave /\ other.pc = "done") =>
          /\ other.id = 1
          /\ DOMAIN other.list.m = {1}
          /\ loadItem(other.doc).items = other.list
    /\ (spc = "reload" /\ other.pc # "done") => loadItem(file).items = itemsList

(* The Actor was saving two items of an earlier session and a new one when *)
(* the other process loaded the file; the other process then saved its own *)
(* item, under ID 1, alone.                                                *)
C38_Witness ==
    /\ initial = Marshal(EarlierSession)
    /\ other.pc = "done" /\ other.inSave /\ other.savedAt = "write"
    /\ other.id = 1
    /\ file = other.doc
    /\ DOMAIN loadItem(file).items.m = {1}
    /\ loadItem(file).items.m[1].Description = "soap"
    /\ {1, 2} \subseteq DOMAIN itemsList.m

(* C39: the reply channel is unbuffered.  Whenever Actor.run is about to   *)
(* send a Response, the caller of that command, and nobody else, is         *)
(* blocked in the receive on that channel, so the send can be taken; the    *)
(* send is one step with the caller's receive, after which the caller has   *)
(* its result and Actor.run is back at its loop head; and Actor.run takes   *)
(* a command from cmdChan only when the Response of every command it took   *)
(* before has been received.                                                *)
C39_ReplyBeforeNextReceive ==
    [][ /\ spc = "reply" =>
              /\ ENABLED Reply
              /\ \E c \in Callers :
                    /\ Waiting = {c}
                    /\ cmd[c].ResultChan = cur.ResultChan
                    /\ cur.ResultChan \notin Replied
        /\ (spc = "reply" /\ spc' # "reply") =>
              /\ spc' = "recv"
              /\ Replied' = Replied \cup {cur.ResultChan}
              /\ \E c \in Callers :
                    /\ cmd[c].ResultChan = cur.ResultChan
                    /\ pc'[c] = "idle"
                    /\ result'[c] = Unwrap(cur.Type, resp)
        /\ received' # received =>
              /\ Waiting = {}
              /\ \A i \in DOMAIN received : received[i] \in Replied
              /\ received' = Append(received, calls + 1)
      ]_vars

(* The first caller has its Response, and only then was the second command *)
(* taken from cmdChan: its caller waits for the reload.                     *)
C39_Witness ==
    /\ spc = "reload"
    /\ received = <<1, 2>>
    /\ Replied = {1}
    /\ \E c, d \in Callers :
          /\ Returned(c) /\ cmd[c].ResultChan = 1
          /\ pc[d] = "waiting" /\ cmd[d].ResultChan = 2 /\ cur = cmd[d]

====
